---- MODULE Spec2Model ----
(***************************************************************************)
(* Model of notebook_converter/notebook_to_demo.py: the conversion of a    *)
(* Jupyter notebook into a Sphinx-Gallery demo script.                     *)
(*                                                                         *)
(* Text is a sequence of one-character strings, so the regular-expression  *)
(* rewrites, the comment prefixes and the final escape pass are computed   *)
(* character by character, as the code computes them.                      *)
(***************************************************************************)
EXTENDS Integers, Sequences, FiniteSets, TLC

(***************************************************************************)
(* String literals of the source.                                          *)
(***************************************************************************)
\* '.. container:: '
L_Container ==
    <<".", ".", " ", "c", "o", "n", "t", "a", "i", "n", "e", "r", ":", ":", " ">>
\* '.. '
L_DotDot ==
    <<".", ".", " ">>
\* '::'
L_ColonColon ==
    <<":", ":">>
\* ':property='
L_Property ==
    <<":", "p", "r", "o", "p", "e", "r", "t", "y", "=">>
\* '\n   '
L_NlIndent ==
    <<"\n", " ", " ", " ">>
\* '   :alt: '
L_Alt ==
    <<" ", " ", " ", ":", "a", "l", "t", ":", " ">>
\* '\n\n   '
L_NlNlIndent ==
    <<"\n", "\n", " ", " ", " ">>
\* '\n'
L_Nl ==
    <<"\n">>
\* '\n\n'
L_NlNl ==
    <<"\n", "\n">>
\* '#'
L_Hash ==
    <<"#">>
\* '# '
L_HashSp ==
    <<"#", " ">>
\* '#    '
L_HashIndent ==
    <<"#", " ", " ", " ", " ">>
\* '.. rst-class :: sphx-glr-script-out'
L_RstClass ==
    <<".", ".", " ", "r", "s", "t", "-", "c", "l", "a", "s", "s", " ", ":", ":", " ", "s", "p", "h", "x", "-", "g", "l", "r", "-", "s", "c", "r", "i", "p", "t", "-", "o", "u", "t">>
\* 'Out:'
L_Out ==
    <<"O", "u", "t", ":">>
\* '.. code-block: none'
L_CodeBlock ==
    <<".", ".", " ", "c", "o", "d", "e", "-", "b", "l", "o", "c", "k", ":", " ", "n", "o", "n", "e">>
\* 'r"""'
L_DocOpen ==
    <<"r", "\"", "\"", "\"">>
\* '"""'
L_DocClose ==
    <<"\"", "\"", "\"">>
\* '\n%'
L_NlPct ==
    <<"\n", "%">>
\* '\n# %'
L_NlHashPct ==
    <<"\n", "#", " ", "%">>
\* '# .. '
L_RoleOpen ==
    <<"#", " ", ".", ".", " ">>
\* ':: '
L_RoleSep ==
    <<":", ":", " ">>
\* '#    :'
L_AttrOpen ==
    <<"#", " ", " ", " ", " ", ":">>
\* ': '
L_AttrSep ==
    <<":", " ">>
\* 'figure'
L_Figure ==
    <<"f", "i", "g", "u", "r", "e">>
\* 'align'
L_Align ==
    <<"a", "l", "i", "g", "n">>
\* 'center'
L_Center ==
    <<"c", "e", "n", "t", "e", "r">>
\* 'width'
L_Width ==
    <<"w", "i", "d", "t", "h">>
\* '80%'
L_80pct ==
    <<"8", "0", "%">>
\* '\n#\n'
L_NlHashNl ==
    <<"\n", "#", "\n">>
\* 'About the author'
L_AboutAuthor ==
    <<"A", "b", "o", "u", "t", " ", "t", "h", "e", " ", "a", "u", "t", "h", "o", "r">>
\* '----------------'
L_Underline ==
    <<"-", "-", "-", "-", "-", "-", "-", "-", "-", "-", "-", "-", "-", "-", "-", "-">>
\* '.. include:: '
L_Include ==
    <<".", ".", " ", "i", "n", "c", "l", "u", "d", "e", ":", ":", " ">>
\* '.. bio:: '
L_Bio ==
    <<".", ".", " ", "b", "i", "o", ":", ":", " ">>
\* '\n   :photo: '
L_Photo ==
    <<"\n", " ", " ", " ", ":", "p", "h", "o", "t", "o", ":", " ">>
\* '\n    '
L_BioTail ==
    <<"\n", " ", " ", " ", " ">>
\* '.txt'
L_Txt ==
    <<".", "t", "x", "t">>
\* '.png'
L_Png ==
    <<".", "p", "n", "g">>
\* '_'
L_Underscore ==
    <<"_">>
\* '/'
L_Slash ==
    <<"/">>
\* 'tutorial_'
L_Tutorial ==
    <<"t", "u", "t", "o", "r", "i", "a", "l", "_">>

(***************************************************************************)
(* Character classes and helpers for Python's str and re.                  *)
(***************************************************************************)
LowerChars ==
    {"a", "b", "c", "d", "e", "f", "g", "h", "i", "j", "k", "l", "m",
     "n", "o", "p", "q", "r", "s", "t", "u", "v", "w", "x", "y", "z"}

UpperChars ==
    {"A", "B", "C", "D", "E", "F", "G", "H", "I", "J", "K", "L", "M",
     "N", "O", "P", "Q", "R", "S", "T", "U", "V", "W", "X", "Y", "Z"}

DigitChars ==
    {"0", "1", "2", "3", "4", "5", "6", "7", "8", "9"}

\* Characters at or above U+0080 that occur in the inputs.
HighChars ==
    {"é"}

\* re's \w on str: alphanumerics of any script and the underscore.
WordChar(c) ==
    c \in LowerChars \cup UpperChars \cup DigitChars \cup HighChars \cup {"_"}

\* str.isspace() on the characters that occur in the inputs.
SpaceChar(c) ==
    c \in {" ", "\n", "\t"}

\* The literal lit occurs in t at position p.
IsAt(t, p, lit) ==
    /\ p >= 1
    /\ p + Len(lit) - 1 <= Len(t)
    /\ \A k \in 1..Len(lit) : t[p + k - 1] = lit[k]

\* `lit in t`.
Contains(t, lit) ==
    \E p \in 1..Len(t) : IsAt(t, p, lit)

\* str.startswith.
StartsWith(t, lit) ==
    IsAt(t, 1, lit)

\* Last index of the greedy \w+ run that starts at p (t[p] is a word character).
WordRunEnd(t, p) ==
    CHOOSE e \in p..Len(t) :
        /\ \A k \in p..e : WordChar(t[k])
        /\ e = Len(t) \/ ~WordChar(t[e + 1])

\* Last index of the greedy .* run that starts at p: up to the next newline
\* (p - 1 when the run is empty).
LineEnd(t, p) ==
    CHOOSE e \in (p - 1)..Len(t) :
        /\ \A k \in p..e : t[k] # "\n"
        /\ e = Len(t) \/ t[e + 1] = "\n"

RECURSIVE Repeat(_, _)
\* c * n for a text c.
Repeat(c, n) ==
    IF n <= 0 THEN <<>> ELSE c \o Repeat(c, n - 1)

RECURSIVE Join(_, _)
\* sep.join(parts).
Join(sep, parts) ==
    IF Len(parts) = 0 THEN <<>>
    ELSE IF Len(parts) = 1 THEN parts[1]
    ELSE parts[1] \o sep \o Join(sep, Tail(parts))

RECURSIVE SplitFrom(_, _, _)
SplitFrom(t, p, sep) ==
    IF \E q \in p..Len(t) : t[q] = sep
    THEN LET q == CHOOSE q \in p..Len(t) :
                      t[q] = sep /\ \A k \in p..(q - 1) : t[k] # sep
         IN <<SubSeq(t, p, q - 1)>> \o SplitFrom(t, q + 1, sep)
    ELSE <<SubSeq(t, p, Len(t))>>

\* t.split(sep) for a one-character separator.
Split(t, sep) ==
    SplitFrom(t, 1, sep)

\* line.rstrip().
RStrip(t) ==
    IF \A k \in 1..Len(t) : SpaceChar(t[k]) THEN <<>>
    ELSE SubSeq(t, 1, CHOOSE e \in 1..Len(t) :
                          ~SpaceChar(t[e]) /\ \A k \in (e + 1)..Len(t) : SpaceChar(t[k]))

\* line.lstrip().
LStrip(t) ==
    IF \A k \in 1..Len(t) : SpaceChar(t[k]) THEN <<>>
    ELSE SubSeq(t, CHOOSE b \in 1..Len(t) :
                       ~SpaceChar(t[b]) /\ \A k \in 1..(b - 1) : SpaceChar(t[k]), Len(t))

\* line.strip().
Strip(t) ==
    LStrip(RStrip(t))

\* The positions of t where M holds.
Hits(M(_, _), t) ==
    {q \in 1..Len(t) : M(t, q)}

\* The first of the positions hits from p on (a scan from the left), or 0.
FirstFrom(hits, p) ==
    LET rest == {q \in hits : q >= p}
    IN IF rest = {} THEN 0 ELSE CHOOSE q \in rest : \A k \in rest : q <= k

RECURSIVE ReplaceFrom(_, _, _, _, _)
\* The scan of str.replace from p, hits being the occurrences of old: the
\* text up to the next occurrence is copied, the occurrence replaced, and the
\* scan goes on behind it.
ReplaceFrom(t, p, hits, old, new) ==
    LET q == FirstFrom(hits, p)
    IN IF q = 0 THEN SubSeq(t, p, Len(t))
       ELSE SubSeq(t, p, q - 1) \o new \o ReplaceFrom(t, q + Len(old), hits, old, new)

\* t.replace(old, new): every non-overlapping occurrence, left to right.
Replace(t, old, new) ==
    LET At(u, q) == IsAt(u, q, old)
    IN ReplaceFrom(t, 1, Hits(At, t), old, new)

\* str.lower() on one character.
LowerOf(c) ==
    CASE c = "A" -> "a" [] c = "B" -> "b" [] c = "C" -> "c" [] c = "D" -> "d"
      [] c = "E" -> "e" [] c = "F" -> "f" [] c = "G" -> "g" [] c = "H" -> "h"
      [] c = "I" -> "i" [] c = "J" -> "j" [] c = "K" -> "k" [] c = "L" -> "l"
      [] c = "M" -> "m" [] c = "N" -> "n" [] c = "O" -> "o" [] c = "P" -> "p"
      [] c = "Q" -> "q" [] c = "R" -> "r" [] c = "S" -> "s" [] c = "T" -> "t"
      [] c = "U" -> "u" [] c = "V" -> "v" [] c = "W" -> "w" [] c = "X" -> "x"
      [] c = "Y" -> "y" [] c = "Z" -> "z" [] OTHER -> c

\* str.lower().
Lower(t) ==
    [k \in 1..Len(t) |-> LowerOf(t[k])]

(***************************************************************************)
(* Markup post-processing (lines 17-38, 112-113).                          *)
(***************************************************************************)
\* The pattern \.\. container:: (\w+) matches at p.
ContainerMatchAt(t, p) ==
    /\ IsAt(t, p, L_Container)
    /\ p + Len(L_Container) <= Len(t)
    /\ WordChar(t[p + Len(L_Container)])

RECURSIVE SubTagsFrom(_, _, _)
\* re.sub scanning from p: the text up to the next match is copied, the
\* match replaced by `.. \1::`, and the scan goes on behind it.
SubTagsFrom(t, p, hits) ==
    LET q == FirstFrom(hits, p)
        e == WordRunEnd(t, q + Len(L_Container))
    IN IF q = 0 THEN SubSeq(t, p, Len(t))
       ELSE SubSeq(t, p, q - 1) \o L_DotDot \o SubSeq(t, q + Len(L_Container), e)
                \o L_ColonColon \o SubTagsFrom(t, e + 1, hits)

\* The rewrite with the replacement `.. \1` in place of `.. \1::`.
UpdateSphinxTagsNoColons(rst) ==
    Replace(rst, L_Container, L_DotDot)

\* The rewrite run a second time over its own result.
UpdateSphinxTagsTwice(rst) ==
    LET u == SubTagsFrom(rst, 1, Hits(ContainerMatchAt, rst))
    IN SubTagsFrom(u, 1, Hits(ContainerMatchAt, u))

\* Lines 17-24.
update_sphinx_tags(rst) ==
    SubTagsFrom(rst, 1, Hits(ContainerMatchAt, rst))

\* The pattern (\w+) (:property=) matches at p.
PropertyMatchAt(t, p) ==
    /\ p <= Len(t)
    /\ WordChar(t[p])
    /\ LET e == WordRunEnd(t, p)
       IN e + 1 <= Len(t) /\ t[e + 1] = " " /\ IsAt(t, e + 2, L_Property)

RECURSIVE SubPropertyFrom(_, _, _)
\* re.sub scanning from p: the next match is replaced by `\1\n   \2`.
SubPropertyFrom(t, p, hits) ==
    LET q == FirstFrom(hits, p)
        e == WordRunEnd(t, q)
    IN IF q = 0 THEN SubSeq(t, p, Len(t))
       ELSE SubSeq(t, p, e) \o L_NlIndent \o L_Property
                \o SubPropertyFrom(t, e + 2 + Len(L_Property), hits)

\* The rewrite with the pattern ` (:property=)`, without its (\w+).
AddPropertyNewlineAnywhere(rst) ==
    Replace(rst, <<" ">> \o L_Property, L_NlIndent \o L_Property)

\* Lines 27-38.
add_property_newline(rst) ==
    SubPropertyFrom(rst, 1, Hits(PropertyMatchAt, rst))

\* The pattern ` {3}:alt: (.+)\n\n {3}(.+)` matches at p. `.` matches no
\* newline, so each group runs to the end of its line and is not empty.
AltMatchAt(t, p) ==
    /\ IsAt(t, p, L_Alt)
    /\ LET x == p + Len(L_Alt)
           e == LineEnd(t, x)
       IN /\ e >= x
          /\ IsAt(t, e + 1, L_NlNlIndent)
          /\ LineEnd(t, e + 1 + Len(L_NlNlIndent)) >= e + 1 + Len(L_NlNlIndent)

RECURSIVE SubAltFrom(_, _, _)
\* re.sub scanning from p: the next match is replaced by `   :alt: \1`.
SubAltFrom(t, p, hits) ==
    LET q == FirstFrom(hits, p)
        x == q + Len(L_Alt)
        e == LineEnd(t, x)
        y == e + 1 + Len(L_NlNlIndent)
    IN IF q = 0 THEN SubSeq(t, p, Len(t))
       ELSE SubSeq(t, p, q - 1) \o L_Alt \o SubSeq(t, x, e)
                \o SubAltFrom(t, LineEnd(t, y) + 1, hits)

\* Lines 112-113.
fix_image_alt_tag_as_text(rst) ==
    SubAltFrom(rst, 1, Hits(AltMatchAt, rst))

\* Lines 139-141: the three rewrites in their fixed order.
FormatRst(rst) ==
    fix_image_alt_tag_as_text(add_property_newline(update_sphinx_tags(rst)))

(***************************************************************************)
(* Rendering helpers (lines 41-71).                                        *)
(***************************************************************************)
\* Width of the separator line: '#' * 70.
SepWidth ==
    70

Separator ==
    Repeat(L_Hash, SepWidth)

\* Lines 42-54: the six header lines, each behind `# `, joined by newlines.
OutputHeader ==
    Join(L_Nl, [k \in 1..6 |->
        L_HashSp \o <<L_RstClass, <<>>, L_Out, <<>>, L_CodeBlock, <<>>>>[k]])

\* generate_code_output_block without the rstrip() of line 60.
OutputBlockUnstripped(output_source, only_header) ==
    IF only_header THEN OutputHeader
    ELSE LET output_text ==
                 IF Len(output_source) > 0
                 THEN L_Nl \o Join(L_Nl, [k \in 1..Len(output_source) |->
                                             L_HashIndent \o output_source[k]])
                 ELSE <<>>
         IN L_NlNl \o Separator \o L_Nl \o OutputHeader \o output_text

\* Lines 41-62. output_source is a list of lines; None is the empty list
\* (both are falsy at line 59).
generate_code_output_block(output_source, only_header) ==
    IF only_header THEN OutputHeader
    ELSE LET output_text ==
                 IF Len(output_source) > 0
                 THEN L_Nl \o Join(L_Nl, [k \in 1..Len(output_source) |->
                                             L_HashIndent \o RStrip(output_source[k])])
                 ELSE <<>>
         IN L_NlNl \o Separator \o L_Nl \o OutputHeader \o output_text

\* Lines 65-71. attrs is the keyword arguments in call order, as <<name, value>>.
generate_sphinx_role_comment(role_name, target, attrs) ==
    Join(L_Nl, <<L_RoleOpen \o role_name \o L_RoleSep \o target>>
                 \o [k \in 1..Len(attrs) |->
                        L_AttrOpen \o attrs[k][1] \o L_AttrSep \o attrs[k][2]])

(***************************************************************************)
(* Paths, numbers and base64.                                              *)
(***************************************************************************)
\* os.path.dirname(os.path.realpath(__file__)) (line 14); an absolute path.
CWD ==
    <<"/", "w">>

\* Path.is_absolute().
IsAbsolute(p) ==
    Len(p) > 0 /\ p[1] = "/"

\* a / b for two paths (b relative).
PathJoin(a, b) ==
    a \o L_Slash \o b

\* `p if p.is_absolute() else CWD / p` (lines 77-79, 88-92, 95, 187-191).
SaveLoc(p) ==
    IF IsAbsolute(p) THEN p ELSE PathJoin(CWD, p)

\* Path.name: the final component.
PathName(p) ==
    IF \E k \in 1..Len(p) : p[k] = "/"
    THEN SubSeq(p, 1 + CHOOSE k \in 1..Len(p) :
                           p[k] = "/" /\ \A m \in (k + 1)..Len(p) : p[m] # "/", Len(p))
    ELSE p

\* "".join(Path.suffixes): the name from its first inner dot on; empty when
\* the name ends with a dot or has no inner dot.
Suffixes(p) ==
    LET name == PathName(p)
        dots == {k \in 2..Len(name) : name[k] = "." /\ \E m \in 1..(k - 1) : name[m] # "."}
    IN IF Len(name) = 0 \/ name[Len(name)] = "." \/ dots = {} THEN <<>>
       ELSE SubSeq(name, CHOOSE k \in dots : \A m \in dots : k <= m, Len(name))

RECURSIVE Dec(_)
\* str(n) for n >= 0.
Dec(n) ==
    LET d == <<"0", "1", "2", "3", "4", "5", "6", "7", "8", "9">>[(n % 10) + 1]
    IN IF n < 10 THEN <<d>> ELSE Dec(n \div 10) \o <<d>>

B64Alphabet ==
    <<"A", "B", "C", "D", "E", "F", "G", "H", "I", "J", "K", "L", "M",
      "N", "O", "P", "Q", "R", "S", "T", "U", "V", "W", "X", "Y", "Z",
      "a", "b", "c", "d", "e", "f", "g", "h", "i", "j", "k", "l", "m",
      "n", "o", "p", "q", "r", "s", "t", "u", "v", "w", "x", "y", "z",
      "0", "1", "2", "3", "4", "5", "6", "7", "8", "9", "+", "/">>

B64Index(c) ==
    IF c = "=" THEN 0 ELSE (CHOOSE k \in 1..64 : B64Alphabet[k] = c) - 1

\* b64decode accepts s: whole groups of four, padding only at the end.
B64Valid(s) ==
    /\ Len(s) % 4 = 0
    /\ \A k \in 1..Len(s) : s[k] = "=" => k > Len(s) - 2 /\ \A m \in k..Len(s) : s[m] = "="

RECURSIVE B64DecodeFrom(_, _)
B64DecodeFrom(s, p) ==
    IF p > Len(s) THEN <<>>
    ELSE LET n == B64Index(s[p]) * 262144 + B64Index(s[p + 1]) * 4096
                      + B64Index(s[p + 2]) * 64 + B64Index(s[p + 3])
             b == <<n \div 65536, (n \div 256) % 256, n % 256>>
             keep == IF s[p + 2] = "=" THEN 1 ELSE IF s[p + 3] = "=" THEN 2 ELSE 3
         IN SubSeq(b, 1, keep) \o B64DecodeFrom(s, p + 4)

\* base64.b64decode on a valid payload: its bytes.
b64decode(s) ==
    B64DecodeFrom(s, 1)

(***************************************************************************)
(* The filesystem: known paths map to an entry.                            *)
(***************************************************************************)
Absent ==
    [kind |-> "absent", data |-> <<>>]

Dir ==
    [kind |-> "dir", data |-> <<>>]

File(data) ==
    [kind |-> "file", data |-> data]

\* fs with path p set to entry e.
FsPut(f, p, e) ==
    [q \in DOMAIN f \cup {p} |-> IF q = p THEN e ELSE f[q]]

\* Path.exists() on a known path.
Exists(f, p) ==
    p \in DOMAIN f /\ f[p].kind # "absent"

(***************************************************************************)
(* Inputs.                                                                 *)
(***************************************************************************)
\* Most cells a notebook has, and most outputs its cells carry in all.
MaxCells ==
    3

MaxOutputs ==
    2

\* The same for the runs of the whole script.
MaxMainCells ==
    2

MaxMainOutputs ==
    1

\* Most outputs of the code cell whose outputs are rendered alone.
MaxCellOutputs ==
    3

\* Most outputs in a run of the script in which one output follows another.
MaxRunOutputs ==
    2

\* Most pieces of a markup text a rewrite is applied to twice.
MaxRulePieces ==
    3

\* Most pieces an author name or a markup text is made of.
MaxNamePieces ==
    3

MaxTextPieces ==
    3

RECURSIVE Concat(_)
\* The concatenation of a sequence of texts.
Concat(parts) ==
    IF Len(parts) = 0 THEN <<>> ELSE parts[1] \o Concat(Tail(parts))

\* Every text made of at most n of the given pieces.
TextsOf(pieces, n) ==
    {Concat(ps) : ps \in UNION {[1..m -> pieces] : m \in 0..n}}

\* --authors-directory.
AuthorsDir ==
    <<"a", "u">>

\* --sphinx-gallery-dir.
GalleryDir ==
    <<"g">>

\* Stems of the notebook file (Path(results.file).stem).
NotebookStems ==
    {<<"n">>, L_Tutorial \o <<"n">>}

\* Pieces of author names: letters, and characters inside and outside the
\* class of line 83.
NamePieces ==
    {<<"J", "a", "n", "e">>, <<"Q">>, <<"D", "o", "e">>, <<" ">>, <<".">>, <<"-">>,
     <<"'">>, <<"é">>}

\* profile_picture: relative, absolute with two suffixes, without suffix.
PicturePaths ==
    {<<"j", ".", "p", "n", "g">>, <<"/", "p", "/", "j", ".", "t", "a", "r", ".", "g", "z">>,
     <<"j">>}

\* "Jane Q. Doe"
JaneQDoe ==
    <<"J", "a", "n", "e", " ", "Q", ".", " ", "D", "o", "e">>

\* Author metadata (yaml.safe_load of --author-file) of the runs of the script.
MainAuthors ==
    {[name |-> JaneQDoe, profile_picture |-> <<"j", ".", "p", "n", "g">>],
     [name |-> JaneQDoe, profile_picture |-> <<"j", ".", "p", "n", "g">>,
      bio |-> <<"b", "i", "o">>, formatted_name |-> <<"j", "d">>],
     [profile_picture |-> <<"j", ".", "p", "n", "g">>],
     [name |-> JaneQDoe]}

\* Author metadata for set_author_info alone.
AuthorInputs ==
    {[name |-> n, profile_picture |-> p] :
        n \in TextsOf(NamePieces, MaxNamePieces) \ {<<>>}, p \in PicturePaths}
    \cup MainAuthors

\* Bytes of the author's picture.
PictureBytes ==
    <<255, 216>>

(***************************************************************************)
(* set_author_info (lines 74-109).                                         *)
(***************************************************************************)
\* The class [ \-'\u0080-\uFFFF] of line 83.
NameSepChar(c) ==
    c \in {" ", "-", "'"} \cup HighChars

RECURSIVE SubNameFrom(_, _, _)
\* re.sub(r"[ \-'\u0080-\uFFFF]+", "_", name) scanning from p: the next
\* greedy run of the class is replaced by one underscore.
SubNameFrom(t, p, hits) ==
    LET q == FirstFrom(hits, p)
        e == CHOOSE e \in q..Len(t) :
                 /\ \A k \in q..e : NameSepChar(t[k])
                 /\ e = Len(t) \/ ~NameSepChar(t[e + 1])
    IN IF q = 0 THEN SubSeq(t, p, Len(t))
       ELSE SubSeq(t, p, q - 1) \o L_Underscore \o SubNameFrom(t, e + 1, hits)

\* Lines 82-84 with the pattern [ \-'\u0080-\uFFFF] without its `+`: every
\* character of the class becomes an underscore of its own.
NameFormattedPerChar(info) ==
    IF "formatted_name" \in DOMAIN info THEN info.formatted_name
    ELSE Lower(Concat([k \in 1..Len(info.name) |->
                  IF NameSepChar(info.name[k]) THEN L_Underscore ELSE <<info.name[k]>>]))

\* Lines 82-84.
NameFormatted(info) ==
    IF "formatted_name" \in DOMAIN info THEN info.formatted_name
    ELSE LET At(u, k) == NameSepChar(u[k])
         IN Lower(SubNameFrom(info.name, 1, Hits(At, info.name)))

\* Lines 85-87: where the picture is copied to, as written in the info file.
NewProfilePictureLoc(info, authors_dir) ==
    PathJoin(authors_dir, NameFormatted(info) \o Suffixes(info.profile_picture))

\* Lines 93-94.
InfoFileLoc(info, authors_dir) ==
    PathJoin(authors_dir, NameFormatted(info) \o L_Txt)

\* Lines 99-103.
AuthorTxt(info, authors_dir) ==
    L_Bio \o info.name \o L_Photo \o NewProfilePictureLoc(info, authors_dir)
        \o L_NlNlIndent \o (IF "bio" \in DOMAIN info THEN info.bio ELSE <<>>) \o L_BioTail

\* Lines 107-109: the returned fragment.
AuthorSphinx(info, authors_dir) ==
    L_NlNl \o Separator \o L_Nl
        \o Join(L_Nl, [k \in 1..3 |->
               L_HashSp \o <<L_AboutAuthor, L_Underline,
                             L_Include \o InfoFileLoc(info, authors_dir)>>[k]])

(***************************************************************************)
(* Notebook inputs.                                                        *)
(***************************************************************************)
\* What the initial validations (lines 124-127) find in the notebook.
NotebookShapes ==
    {"no_cells_key", "cells_not_a_list", "cells_empty", "first_not_markdown",
     "first_markdown"}

\* cell["source"] of a markdown cell, as its list of lines.
MarkdownSources ==
    {<<>>, <<<<"#", " ", "T">>>>}

\* What pypandoc.convert_text returns for a markdown cell (the converter is
\* external: any of these may come back).
RstResults ==
    {<<"T", "\n", "%", "b">>,
     L_Container \o <<"n", "o", "t", "e", "\n", "\n">> \o L_Alt \o <<"c", "\n", "\n">>
         \o <<" ", " ", " ", "c", " ">> \o L_Property \o <<"v">>}

\* cell["source"] of a code cell, as its list of lines.
CodeSources ==
    {<<>>, <<<<"x", "=", "1">>>>, <<<<"%", "t", "\n">>, <<"%", "u">>>>}

\* cell["id"] of a code cell.
CellIds ==
    {<<"c", "1">>, <<"c", "2">>}

\* A list of output lines: " 1 \n" and "%b".
Lines ==
    <<<<" ", "1", " ", "\n">>, <<"%", "b">>>>

\* An image/png payload: base64 of the one byte 65.
Payload ==
    <<"Q", "Q", "=", "=">>

\* A payload b64decode rejects (incorrect padding).
BadPayload ==
    <<"Q", "Q">>

\* Bytes of an image file left by an earlier run.
OldBytes ==
    <<0>>

ExecuteResultOutputs ==
    {[output_type |-> "execute_result", data |-> ("text/plain" :> Lines)],
     [output_type |-> "execute_result", data |-> ("text/html" :> Lines)],
     [output_type |-> "execute_result"]}

DisplayDataOutputs ==
    {[output_type |-> "display_data", data |-> ("text/plain" :> Lines)],
     [output_type |-> "display_data", data |-> ("image/png" :> Payload)],
     [output_type |-> "display_data",
      data |-> ("text/plain" :> Lines) @@ ("image/png" :> Payload)],
     [output_type |-> "display_data", data |-> ("image/png" :> BadPayload)],
     [output_type |-> "display_data", data |-> ("text/html" :> Lines)],
     [output_type |-> "display_data"]}

StreamOutputs ==
    {[output_type |-> "stream", text |-> Lines],
     [output_type |-> "stream"]}

(***************************************************************************)
(* State.                                                                  *)
(***************************************************************************)
VARIABLES
    pc,             \* where the run is: author, convert, cells, outputs,
                    \* returned, done, failed; text (a rewrite alone)
    err,            \* the exception that ended the run, or "none"
    nb_shape,       \* the notebook's shape, one of NotebookShapes
    notebook_name,  \* argument notebook_name (the file's stem)
    is_executable,  \* argument is_executable
    asset_folder,   \* argument notebook_asset_folder_name
    author_info,    \* the author metadata
    author_sphinx,  \* what set_author_info returned
    fs,             \* the filesystem: save location -> entry
    cells,          \* the cells read so far, the last one being processed
    doc,            \* ret_python_str
    num_images,     \* num_images of the current code cell
    nb_py,          \* nb_py of the script, once the author block is appended
    tIn,            \* a rewrite alone: its input,
    tOut,           \* its result,
    tOp             \* and which rewrite was applied

vars ==
    <<pc, err, nb_shape, notebook_name, is_executable, asset_folder, author_info,
      author_sphinx, fs, cells, doc, num_images, nb_py, tIn, tOut, tOp>>

textVars ==
    <<tIn, tOut, tOp>>

argVars ==
    <<nb_shape, notebook_name, is_executable, asset_folder, author_info>>

\* The fs with no path known yet.
EmptyFs ==
    [p \in {} |-> Absent]

\* Lines 243-248: the executable flag and the asset folder from the stem.
NotebookIsExecutable(stem, flag) ==
    StartsWith(stem, L_Tutorial) \/ flag

NotebookAssetsFolderName(stem) ==
    IF StartsWith(stem, L_Tutorial) THEN SubSeq(stem, Len(L_Tutorial) + 1, Len(stem))
    ELSE stem

\* Lines 177-182: the image's path as referenced in the document.
ImageFilePath(cell_id, n) ==
    PathJoin(PathJoin(GalleryDir, asset_folder),
             notebook_name \o L_Underscore \o cell_id \o L_Underscore \o Dec(n) \o L_Png)

ImageFileDir ==
    PathJoin(GalleryDir, asset_folder)

\* Lines 269-272: the document's save location.
DocumentLoc ==
    PathJoin(SaveLoc(GalleryDir), notebook_name \o <<".", "p", "y">>)

\* The script starts with its arguments parsed and both input files loaded
\* (lines 239-255).
Init ==
    /\ pc = "author"
    /\ err = "none"
    /\ nb_shape \in NotebookShapes
    /\ \E stem \in NotebookStems, flag \in BOOLEAN :
           /\ notebook_name = stem
           /\ is_executable = NotebookIsExecutable(stem, flag)
           /\ asset_folder = NotebookAssetsFolderName(stem)
    /\ author_info \in MainAuthors
    /\ author_sphinx = <<>>
    /\ fs = EmptyFs
    /\ cells = <<>>
    /\ doc = <<>>
    /\ num_images = 0
    /\ nb_py = <<>>
    /\ tIn = <<>> /\ tOut = <<>> /\ tOp = "none"

\* convert_notebook_to_python alone, entered with its arguments.
InitConvert ==
    /\ pc = "convert"
    /\ err = "none"
    /\ nb_shape \in NotebookShapes
    /\ notebook_name = <<"n">>
    /\ is_executable \in BOOLEAN
    /\ asset_folder = <<"n">>
    /\ author_info = [name |-> JaneQDoe, profile_picture |-> <<"j", ".", "p", "n", "g">>]
    /\ author_sphinx = <<>>
    /\ fs = EmptyFs
    /\ cells = <<>>
    /\ doc = <<>>
    /\ num_images = 0
    /\ nb_py = <<>>
    /\ tIn = <<>> /\ tOut = <<>> /\ tOp = "none"

\* set_author_info alone, entered with its arguments.
InitAuthor ==
    /\ pc = "author"
    /\ err = "none"
    /\ nb_shape = "first_markdown"
    /\ notebook_name = <<"n">>
    /\ is_executable = FALSE
    /\ asset_folder = <<"n">>
    /\ author_info \in AuthorInputs
    /\ author_sphinx = <<>>
    /\ fs = EmptyFs
    /\ cells = <<>>
    /\ doc = <<>>
    /\ num_images = 0
    /\ nb_py = <<>>
    /\ tIn = <<>> /\ tOut = <<>> /\ tOp = "none"

Fail(e) ==
    /\ pc' = "failed"
    /\ err' = e

(***************************************************************************)
(* set_author_info as called at line 257.                                  *)
(***************************************************************************)
\* What shutil.copy and the open of the info file find on disk.
AuthorDiskStates ==
    {"ok", "no_picture", "no_authors_dir"}

\* set_author_info with the two required fields read by author_info.get():
\* metadata without them is passed over and the run goes on without a block.
SetAuthorInfoOptionalFields ==
    /\ pc = "author"
    /\ UNCHANGED <<argVars, cells, doc, num_images, nb_py, textVars>>
    /\ IF "name" \notin DOMAIN author_info \/ "profile_picture" \notin DOMAIN author_info
       THEN /\ pc' = "convert"
            /\ err' = "none"
            /\ UNCHANGED <<fs, author_sphinx>>
       ELSE /\ fs' = FsPut(FsPut(fs, SaveLoc(NewProfilePictureLoc(author_info, AuthorsDir)),
                                 File(PictureBytes)),
                           SaveLoc(InfoFileLoc(author_info, AuthorsDir)),
                           File(AuthorTxt(author_info, AuthorsDir)))
            /\ author_sphinx' = AuthorSphinx(author_info, AuthorsDir)
            /\ pc' = "convert"
            /\ err' = "none"

SetAuthorInfo ==
    /\ pc = "author"
    /\ UNCHANGED <<argVars, cells, doc, num_images, nb_py, textVars>>
    /\ IF "name" \notin DOMAIN author_info \/ "profile_picture" \notin DOMAIN author_info
       THEN \* lines 75-76
            /\ Fail("KeyError")
            /\ UNCHANGED <<fs, author_sphinx>>
       ELSE \E disk \in AuthorDiskStates :
            LET pic == SaveLoc(NewProfilePictureLoc(author_info, AuthorsDir))
                info == SaveLoc(InfoFileLoc(author_info, AuthorsDir))
            IN IF disk # "ok"
               THEN \* line 97: shutil.copy raises
                    /\ Fail("FileNotFoundError")
                    /\ UNCHANGED <<fs, author_sphinx>>
               ELSE /\ fs' = FsPut(FsPut(fs, pic, File(PictureBytes)), info,
                                   File(AuthorTxt(author_info, AuthorsDir)))
                    /\ author_sphinx' = AuthorSphinx(author_info, AuthorsDir)
                    /\ pc' = "convert"
                    /\ err' = "none"

(***************************************************************************)
(* convert_notebook_to_python (lines 116-204).                             *)
(***************************************************************************)
\* The assertions without the one on the first cell's type (line 127).
ValidNotebookAnyFirstCell(shape) ==
    /\ shape # "no_cells_key"
    /\ shape # "cells_not_a_list"
    /\ shape # "cells_empty"

\* Lines 124-127: the four assertions pass.
ValidNotebook(shape) ==
    /\ shape # "no_cells_key"
    /\ shape # "cells_not_a_list"
    /\ shape # "cells_empty"
    /\ shape = "first_markdown"

\* The initial validations, undoing the author files when one fails.
ValidateWithRollback ==
    /\ pc = "convert"
    /\ UNCHANGED <<argVars, author_sphinx, cells, num_images, nb_py, textVars>>
    /\ IF ValidNotebook(nb_shape)
       THEN /\ pc' = "cells"
            /\ err' = "none"
            /\ doc' = <<>>
            /\ UNCHANGED fs
       ELSE /\ Fail("AssertionError")
            /\ fs' = EmptyFs
            /\ UNCHANGED doc

\* Lines 124-129: the initial validations.
Validate ==
    /\ pc = "convert"
    /\ UNCHANGED <<argVars, author_sphinx, fs, cells, num_images, nb_py, textVars>>
    /\ IF ValidNotebook(nb_shape)
       THEN /\ pc' = "cells"
            /\ err' = "none"
            /\ doc' = <<>>
       ELSE /\ Fail("AssertionError")
            /\ UNCHANGED doc

\* The cell being processed and the index j of its next output.
Cur ==
    cells[Len(cells)]

NextJ ==
    Len(Cur.outputs)

RECURSIVE OutputsIn(_)
OutputsIn(cs) ==
    IF Len(cs) = 0 THEN 0 ELSE Len(cs[1].outputs) + OutputsIn(Tail(cs))

\* The outputs read so far, over all cells.
OutputsRead ==
    OutputsIn(cells)

\* Lines 147-149: every line of the markup behind `# `.
CommentedSource(rst) ==
    LET ls == Split(rst, "\n")
    IN Join(L_Nl, [k \in 1..Len(ls) |-> L_HashSp \o ls[k]])

\* Line 145 run for every markdown cell (line 144 without its test of i).
MarkdownTextAlwaysHeader(d, i, rst) ==
    L_DocOpen \o FormatRst(rst) \o L_DocClose

\* Lines 135-151: the new ret_python_str for a markdown cell with a source,
\* i its index and rst what pypandoc returned.
MarkdownText(d, i, rst) ==
    IF i = 0 THEN L_DocOpen \o FormatRst(rst) \o L_DocClose
    ELSE d \o L_NlNl \o Separator \o L_Nl \o CommentedSource(FormatRst(rst))

\* Line 153 with one newline before the source.
CodeTextOneNewline(d, source) ==
    d \o L_Nl \o source

\* Line 153.
CodeText(d, source) ==
    d \o L_NlNl \o source

\* The loop takes the next cell, a markdown cell (cell 0 is one).
MarkdownCell(maxCells) ==
    /\ pc = "cells"
    /\ Len(cells) < maxCells
    /\ UNCHANGED <<argVars, author_sphinx, fs, num_images, nb_py, textVars, pc, err>>
    /\ \E src \in MarkdownSources :
       \E rst \in (IF Concat(src) = <<>> THEN {<<>>} ELSE RstResults) :
           /\ cells' = Append(cells, [cell_type |-> "markdown", source |-> Concat(src),
                                      rst |-> rst, id |-> <<>>, outputs |-> <<>>])
           /\ doc' = IF Concat(src) = <<>> THEN doc
                     ELSE MarkdownText(doc, Len(cells), rst)

\* Line 154 reached whatever the source is (line 152 without `and cell_source`).
EntersOutputsOnEmptySource(source, executable) ==
    ~executable

\* Line 154 without its test of is_executable.
EntersOutputsIgnoringFlag(source, executable) ==
    source # <<>>

\* Lines 152-154: the outputs of a code cell are rendered.
EntersOutputs(source, executable) ==
    source # <<>> /\ ~executable

\* The loop takes the next cell, a code cell.
CodeCell(maxCells) ==
    /\ pc = "cells"
    /\ Len(cells) >= 1
    /\ Len(cells) < maxCells
    /\ UNCHANGED <<argVars, author_sphinx, fs, nb_py, textVars, err>>
    /\ \E src \in CodeSources :
           /\ cells' = Append(cells, [cell_type |-> "code", source |-> Concat(src),
                                      rst |-> <<>>, id |-> <<>>, outputs |-> <<>>])
           /\ doc' = IF Concat(src) = <<>> THEN doc ELSE CodeText(doc, Concat(src))
           /\ IF EntersOutputs(Concat(src), is_executable)
              THEN pc' = "outputs" /\ num_images' = 0
              ELSE pc' = "cells" /\ UNCHANGED num_images

\* The loop takes the next cell, of another type (raw): neither branch runs.
OtherCell(maxCells) ==
    /\ pc = "cells"
    /\ Len(cells) >= 1
    /\ Len(cells) < maxCells
    /\ UNCHANGED <<argVars, author_sphinx, fs, nb_py, textVars, err, pc, doc, num_images>>
    /\ cells' = Append(cells, [cell_type |-> "raw", source |-> <<"r">>,
                               rst |-> <<>>, id |-> <<>>, outputs |-> <<>>])

\* cells with output o appended to the current cell's outputs.
WithOutput(o) ==
    [cells EXCEPT ![Len(cells)].outputs = Append(@, o)]

\* output.get("data") is a mapping holding the key.
Has(o, key) ==
    "data" \in DOMAIN o /\ key \in DOMAIN o.data

\* Lines 160-163.
ExecuteResultOutput(maxOutputs) ==
    /\ pc = "outputs"
    /\ OutputsRead < maxOutputs
    /\ UNCHANGED <<argVars, author_sphinx, fs, nb_py, textVars, num_images>>
    /\ \E o \in ExecuteResultOutputs :
           /\ cells' = WithOutput(o)
           /\ IF "data" \notin DOMAIN o
              THEN \* `"text/plain" in None`
                   Fail("TypeError") /\ UNCHANGED doc
              ELSE /\ UNCHANGED <<pc, err>>
                   /\ doc' = IF Has(o, "text/plain")
                             THEN doc \o generate_code_output_block(o.data["text/plain"],
                                                                    NextJ # 0)
                             ELSE doc

\* Lines 166-171: the text of a display_data output.
DisplayText(d, o, j) ==
    IF Has(o, "text/plain") /\ ~Has(o, "image/png")
    THEN d \o (IF j = 0 THEN generate_code_output_block(<<>>, FALSE) ELSE <<>>)
           \o L_Nl \o Join(L_Nl, [k \in 1..Len(o.data["text/plain"]) |->
                                     L_HashIndent \o Strip(o.data["text/plain"][k])])
    ELSE d

\* Lines 183-185.
RoleText(path) ==
    generate_sphinx_role_comment(L_Figure, path,
                                 <<<<L_Align, L_Center>>, <<L_Width, L_80pct>>>>)

\* Lines 192-193: `if not image_save_loc.exists(): image_save_loc.mkdir(parents=True)`
\* makes the image's own path a directory, and its parents with it.
MkdirIfAbsent(f, p, parent) ==
    IF Exists(f, p) THEN f ELSE FsPut(FsPut(f, parent, Dir), p, Dir)

\* Lines 192-195: the filesystem after the write, and the error open() raises.
WriteImage(f, p, parent, data) ==
    LET g == MkdirIfAbsent(f, p, parent)
    IN IF g[p].kind = "dir" THEN [fs |-> g, err |-> "IsADirectoryError"]
       ELSE [fs |-> FsPut(g, p, File(data)), err |-> "none"]

\* What is on disk at an image's save location and at its directory before
\* the run touches them: known entries stay, unknown ones may be anything.
DiskBefore(f, p, parent) ==
    {g \in {FsPut(FsPut(f, parent, d), p, e) :
                e \in (IF p \in DOMAIN f THEN {f[p]} ELSE {Absent, Dir, File(OldBytes)}),
                d \in (IF parent \in DOMAIN f THEN {f[parent]} ELSE {Absent, Dir})} :
        g[parent].kind = "absent" => g[p].kind = "absent"}

\* Lines 164-196.
DisplayDataOutput(maxOutputs) ==
    /\ pc = "outputs"
    /\ OutputsRead < maxOutputs
    /\ UNCHANGED <<argVars, author_sphinx, nb_py, textVars>>
    /\ \E o \in DisplayDataOutputs :
       \E id \in (IF Cur.id # <<>> THEN {Cur.id} ELSE CellIds \cup {<<>>}) :
           LET j == NextJ
               seen == [WithOutput(o) EXCEPT ![Len(cells)].id = id]
               d1 == DisplayText(doc, o, j)
               d2 == d1 \o (IF j = 0 THEN L_NlNl \o Separator ELSE <<>>)
               n == num_images + 1
               path == ImageFilePath(id, n)
               loc == SaveLoc(path)
               dir == SaveLoc(ImageFileDir)
           IN /\ cells' = seen
              /\ IF id = <<>>
                 THEN \* line 165: the cell has no id
                      Fail("KeyError") /\ UNCHANGED <<doc, fs, num_images>>
                 ELSE IF "data" \notin DOMAIN o
                 THEN \* line 166: `"text/plain" in None`
                      Fail("TypeError") /\ UNCHANGED <<doc, fs, num_images>>
                 ELSE IF ~Has(o, "image/png")
                 THEN /\ doc' = d1
                      /\ UNCHANGED <<pc, err, fs, num_images>>
                 ELSE IF ~B64Valid(o.data["image/png"])
                 THEN \* line 186
                      /\ Fail("binascii.Error")
                      /\ doc' = d2
                      /\ num_images' = n
                      /\ UNCHANGED fs
                 ELSE \E before \in DiskBefore(fs, loc, dir) :
                      LET w == WriteImage(before, loc, dir, b64decode(o.data["image/png"]))
                      IN /\ fs' = w.fs
                         /\ num_images' = n
                         /\ IF w.err = "none"
                            THEN /\ doc' = d2 \o L_NlHashNl \o RoleText(path)
                                 /\ UNCHANGED <<pc, err>>
                            ELSE /\ doc' = d2
                                 /\ Fail(w.err)

\* Lines 197-200 with the header rule of line 162 (only_header=j != 0).
StreamOutputHeaderOnlyAfterFirst(maxOutputs) ==
    /\ pc = "outputs"
    /\ OutputsRead < maxOutputs
    /\ UNCHANGED <<argVars, author_sphinx, fs, nb_py, textVars, num_images, pc, err>>
    /\ \E o \in StreamOutputs :
           /\ cells' = WithOutput(o)
           /\ doc' = IF "text" \in DOMAIN o /\ Len(o.text) > 0
                     THEN doc \o generate_code_output_block(o.text, NextJ # 0)
                     ELSE doc

\* Lines 197-200.
StreamOutput(maxOutputs) ==
    /\ pc = "outputs"
    /\ OutputsRead < maxOutputs
    /\ UNCHANGED <<argVars, author_sphinx, fs, nb_py, textVars, num_images, pc, err>>
    /\ \E o \in StreamOutputs :
           /\ cells' = WithOutput(o)
           /\ doc' = IF "text" \in DOMAIN o /\ Len(o.text) > 0
                     THEN doc \o generate_code_output_block(o.text, FALSE)
                     ELSE doc

\* The current cell has no further output: on to the next cell.
EndOutputs ==
    /\ pc = "outputs"
    /\ pc' = "cells"
    /\ UNCHANGED <<argVars, author_sphinx, fs, nb_py, textVars, num_images, err, doc, cells>>

\* The final pass as ret.replace("\n%", "\n# %", 1): the first occurrence only.
EscapeFirstPercent(d) ==
    LET hits == {p \in 1..Len(d) : IsAt(d, p, L_NlPct)}
        q == FirstFrom(hits, 1)
    IN IF q = 0 THEN d
       ELSE SubSeq(d, 1, q - 1) \o L_NlHashPct \o SubSeq(d, q + Len(L_NlPct), Len(d))

\* Line 202: the final pass.
EscapePercent(d) ==
    Replace(d, L_NlPct, L_NlHashPct)

\* Lines 201-204: the notebook has no further cell; the loop's else clause
\* runs and the function returns.
EndCells ==
    /\ pc = "cells"
    /\ Len(cells) >= 1
    /\ doc' = EscapePercent(doc)
    /\ pc' = "returned"
    /\ UNCHANGED <<argVars, author_sphinx, fs, nb_py, textVars, num_images, err, cells>>

(***************************************************************************)
(* The script (lines 257-273).                                             *)
(***************************************************************************)
\* The write moved into a `finally:` clause: it also runs after a failure.
WriteDocumentInFinally ==
    /\ pc \in {"returned", "failed"}
    /\ nb_py' = doc \o author_sphinx
    /\ fs' = FsPut(fs, DocumentLoc, File(doc \o author_sphinx))
    /\ pc' = IF pc = "failed" THEN "failed" ELSE "done"
    /\ UNCHANGED <<argVars, author_sphinx, textVars, num_images, cells, doc, err>>

\* The write without line 267: the author block is not appended.
WriteDocumentWithoutAuthor ==
    /\ pc = "returned"
    /\ nb_py' = doc
    /\ fs' = FsPut(fs, DocumentLoc, File(doc))
    /\ pc' = "done"
    /\ UNCHANGED <<argVars, author_sphinx, textVars, num_images, cells, doc, err>>

\* Lines 267-273: the author block is appended and the document written.
\* open() fails when the gallery directory does not exist.
WriteDocument ==
    /\ pc = "returned"
    /\ nb_py' = doc \o author_sphinx
    /\ UNCHANGED <<argVars, author_sphinx, textVars, num_images, cells, doc>>
    /\ \E gallery \in (IF SaveLoc(ImageFileDir) \in DOMAIN fs
                          /\ fs[SaveLoc(ImageFileDir)].kind = "dir"
                       THEN {TRUE} ELSE BOOLEAN) :
           IF gallery
           THEN /\ fs' = FsPut(fs, DocumentLoc, File(doc \o author_sphinx))
                /\ pc' = "done"
                /\ err' = "none"
           ELSE /\ Fail("FileNotFoundError")
                /\ UNCHANGED fs

Next ==
    \/ SetAuthorInfo
    \/ Validate
    \/ MarkdownCell(MaxMainCells)
    \/ CodeCell(MaxMainCells)
    \/ OtherCell(MaxMainCells)
    \/ ExecuteResultOutput(MaxMainOutputs)
    \/ DisplayDataOutput(MaxMainOutputs)
    \/ StreamOutput(MaxMainOutputs)
    \/ EndOutputs
    \/ EndCells
    \/ WriteDocument

Spec ==
    Init /\ [][Next]_vars

\* The script with room for two outputs in its code cell.
NextRun ==
    \/ SetAuthorInfo
    \/ Validate
    \/ MarkdownCell(MaxMainCells)
    \/ CodeCell(MaxMainCells)
    \/ OtherCell(MaxMainCells)
    \/ ExecuteResultOutput(MaxRunOutputs)
    \/ DisplayDataOutput(MaxRunOutputs)
    \/ StreamOutput(MaxRunOutputs)
    \/ EndOutputs
    \/ EndCells
    \/ WriteDocument

SpecRun ==
    Init /\ [][NextRun]_vars

NextConvert ==
    \/ Validate
    \/ MarkdownCell(MaxCells)
    \/ CodeCell(MaxCells)
    \/ OtherCell(MaxCells)
    \/ ExecuteResultOutput(MaxOutputs)
    \/ DisplayDataOutput(MaxOutputs)
    \/ StreamOutput(MaxOutputs)
    \/ EndOutputs
    \/ EndCells

SpecConvert ==
    InitConvert /\ [][NextConvert]_vars

\* The output loop of one code cell alone (lines 156-200), entered at line
\* 158: the notebook is not executable, its header (cell 0) and the source
\* of its code cell (cell 1) have been appended.
InitOutputs ==
    /\ pc = "outputs"
    /\ err = "none"
    /\ nb_shape = "first_markdown"
    /\ notebook_name = <<"n">>
    /\ is_executable = FALSE
    /\ asset_folder = <<"n">>
    /\ author_info = [name |-> JaneQDoe, profile_picture |-> <<"j", ".", "p", "n", "g">>]
    /\ author_sphinx = <<>>
    /\ fs = EmptyFs
    /\ \E md \in MarkdownSources \ {<<>>}, rst \in RstResults, src \in CodeSources \ {<<>>} :
           /\ cells = <<[cell_type |-> "markdown", source |-> Concat(md), rst |-> rst,
                         id |-> <<>>, outputs |-> <<>>],
                        [cell_type |-> "code", source |-> Concat(src), rst |-> <<>>,
                         id |-> <<>>, outputs |-> <<>>]>>
           /\ doc = CodeText(MarkdownText(<<>>, 0, rst), Concat(src))
    /\ num_images = 0
    /\ nb_py = <<>>
    /\ tIn = <<>> /\ tOut = <<>> /\ tOp = "none"

NextOutputs ==
    \/ ExecuteResultOutput(MaxCellOutputs)
    \/ DisplayDataOutput(MaxCellOutputs)
    \/ StreamOutput(MaxCellOutputs)
    \/ EndOutputs

SpecOutputs ==
    InitOutputs /\ [][NextOutputs]_vars

SpecAuthor ==
    InitAuthor /\ [][SetAuthorInfo]_vars

(***************************************************************************)
(* The markup rewrites alone, each applied to a text.                      *)
(***************************************************************************)
TextPieces ==
    {L_Container, <<"c", "o", "n", "t", "a", "i", "n", "e", "r">>, <<"n", "o", "t", "e">>,
     <<"s">>, <<" ">>, <<"\n">>, <<" ">> \o L_Property,
     <<"n", "o", "t", "e", " ">> \o L_Property, L_Alt, L_NlNlIndent}

TextInputs ==
    TextsOf(TextPieces, MaxTextPieces)

InitText ==
    /\ pc = "text"
    /\ err = "none"
    /\ nb_shape = "first_markdown"
    /\ notebook_name = <<"n">>
    /\ is_executable = FALSE
    /\ asset_folder = <<"n">>
    /\ author_info = [name |-> JaneQDoe, profile_picture |-> <<"j", ".", "p", "n", "g">>]
    /\ author_sphinx = <<>>
    /\ fs = EmptyFs
    /\ cells = <<>>
    /\ doc = <<>>
    /\ num_images = 0
    /\ nb_py = <<>>
    /\ tIn \in TextInputs
    /\ tOut = <<>>
    /\ tOp = "none"

runVars ==
    <<pc, err, argVars, author_sphinx, fs, cells, doc, num_images, nb_py>>

ApplyUpdateSphinxTags ==
    /\ pc = "text" /\ tOp = "none"
    /\ tOp' = "update_sphinx_tags"
    /\ tOut' = update_sphinx_tags(tIn)
    /\ UNCHANGED <<runVars, tIn>>

ApplyAddPropertyNewline ==
    /\ pc = "text" /\ tOp = "none"
    /\ tOp' = "add_property_newline"
    /\ tOut' = add_property_newline(tIn)
    /\ UNCHANGED <<runVars, tIn>>

ApplyFixImageAltTagAsText ==
    /\ pc = "text" /\ tOp = "none"
    /\ tOp' = "fix_image_alt_tag_as_text"
    /\ tOut' = fix_image_alt_tag_as_text(tIn)
    /\ UNCHANGED <<runVars, tIn>>

NextText ==
    \/ ApplyUpdateSphinxTags
    \/ ApplyAddPropertyNewline
    \/ ApplyFixImageAltTagAsText

SpecText ==
    InitText /\ [][NextText]_vars

(***************************************************************************)
(* The rewrites and their pipeline (lines 139-141), each applied to a text *)
(* in which matches of the three patterns follow each other.               *)
(***************************************************************************)
RulePieces ==
    {L_Container, <<"c", "o", "n", "t", "a", "i", "n", "e", "r">>, <<" ", "s">>, <<"\n">>,
     <<"n", "o", "t", "e", " ">> \o L_Property, L_Alt \o <<"a">>, L_NlNlIndent \o <<"b">>}

InitRules ==
    /\ pc = "text"
    /\ err = "none"
    /\ nb_shape = "first_markdown"
    /\ notebook_name = <<"n">>
    /\ is_executable = FALSE
    /\ asset_folder = <<"n">>
    /\ author_info = [name |-> JaneQDoe, profile_picture |-> <<"j", ".", "p", "n", "g">>]
    /\ author_sphinx = <<>>
    /\ fs = EmptyFs
    /\ cells = <<>>
    /\ doc = <<>>
    /\ num_images = 0
    /\ nb_py = <<>>
    /\ tIn \in TextsOf(RulePieces, MaxRulePieces)
    /\ tOut = <<>>
    /\ tOp = "none"

\* Lines 139-141.
ApplyFormatRst ==
    /\ pc = "text" /\ tOp = "none"
    /\ tOp' = "FormatRst"
    /\ tOut' = FormatRst(tIn)
    /\ UNCHANGED <<runVars, tIn>>

NextRules ==
    \/ ApplyUpdateSphinxTags
    \/ ApplyAddPropertyNewline
    \/ ApplyFixImageAltTagAsText
    \/ ApplyFormatRst

SpecRules ==
    InitRules /\ [][NextRules]_vars

(***************************************************************************)
(* Properties.                                                             *)
(***************************************************************************)
Last(s) ==
    s[Len(s)]

EndsWith(t, lit) ==
    Len(lit) <= Len(t) /\ IsAt(t, Len(t) - Len(lit) + 1, lit)

\* How often lit occurs in t.
Count(t, lit) ==
    Cardinality({p \in 1..Len(t) : IsAt(t, p, lit)})

\* out is t with every `%` that directly follows a newline turned into
\* `# %` and every other character kept, stated position by position.
IsPercentEscaped(out, t) ==
    LET marks == {p \in 2..Len(t) : t[p] = "%" /\ t[p - 1] = "\n"}
        at(p) == p + 2 * Cardinality({m \in marks : m < p})
    IN /\ Len(out) = Len(t) + 2 * Cardinality(marks)
       /\ \A p \in 1..Len(t) :
              IF p \in marks
              THEN out[at(p)] = "#" /\ out[at(p) + 1] = " " /\ out[at(p) + 2] = "%"
              ELSE out[at(p)] = t[p]

\* The document's save location holds no file the run wrote.
NoDocumentFile ==
    DocumentLoc \notin DOMAIN fs

\* The two files set_author_info writes: the picture copy and the info file.
C1_AuthorFiles ==
    {SaveLoc(NewProfilePictureLoc(author_info, AuthorsDir)),
     SaveLoc(InfoFileLoc(author_info, AuthorsDir))}

C2_DocumentWrittenLast ==
    /\ ~NoDocumentFile =>
           /\ pc = "done"
           /\ err = "none"
           /\ author_sphinx # <<>>
           /\ cells # <<>>
           /\ fs[DocumentLoc] = File(doc \o author_sphinx)
    /\ pc = "failed" => NoDocumentFile

\* A run that failed at the last step that can fail before the write: an
\* image could not be written.
C2_Witness ==
    /\ pc = "failed"
    /\ err = "IsADirectoryError"
    /\ author_sphinx # <<>>
    /\ Len(cells) = 2
    /\ NoDocumentFile

\* The step of the loop that takes a code cell of an executable notebook.
C3_ExecutableCodeCellStep ==
    /\ pc = "cells"
    /\ is_executable
    /\ Len(cells') = Len(cells) + 1
    /\ Last(cells').cell_type = "code"

\* C3 as amended: with is_executable, a code cell with a non-empty source
\* contributes exactly two newlines and its source, and one with an empty
\* source contributes nothing; the loop goes on to the next cell without
\* reading an output, and no file is written.
C3_ExecutableCellIsSourceOnly ==
    /\ [][C3_ExecutableCodeCellStep =>
              /\ doc' = IF Last(cells').source # <<>>
                        THEN doc \o <<"\n", "\n">> \o Last(cells').source
                        ELSE doc
              /\ pc' = "cells"
              /\ Last(cells').outputs = <<>>
              /\ fs' = fs]_vars
    /\ [](is_executable => pc # "outputs" /\ fs = EmptyFs)

C3_Witness ==
    /\ is_executable
    /\ pc = "cells"
    /\ Len(cells) = 2
    /\ cells[2].cell_type = "code"
    /\ cells[2].source = <<"x", "=", "1">>
    /\ EndsWith(doc, <<"\"", "\"", "\"", "\n", "\n", "x", "=", "1">>)

\* C3 as stated: with is_executable, every code cell contributes exactly two
\* newlines followed by its source.
C3_Original ==
    [][C3_ExecutableCodeCellStep =>
           doc' = doc \o <<"\n", "\n">> \o Last(cells').source]_vars

\* The notebook of C4 has been converted: not executable, cell 0 markdown with
\* a source, cell 1 code with a source and exactly one output, an
\* execute_result with text/plain lines.
C4_Case ==
    /\ pc = "returned"
    /\ ~is_executable
    /\ Len(cells) = 2
    /\ cells[1].cell_type = "markdown" /\ cells[1].source # <<>>
    /\ cells[2].cell_type = "code" /\ cells[2].source # <<>>
    /\ Len(cells[2].outputs) = 1
    /\ cells[2].outputs[1].output_type = "execute_result"
    /\ Has(cells[2].outputs[1], "text/plain")

\* Two newlines, 70 `#`, and the commented `Out:` header block.
C4_OutBlock ==
    <<"\n", "\n", "#", "#", "#", "#", "#", "#", "#", "#", "#", "#", "#", "#", "#", "#",
      "#", "#", "#", "#", "#", "#", "#", "#", "#", "#", "#", "#", "#", "#", "#", "#",
      "#", "#", "#", "#", "#", "#", "#", "#", "#", "#", "#", "#", "#", "#", "#", "#",
      "#", "#", "#", "#", "#", "#", "#", "#", "#", "#", "#", "#", "#", "#", "#", "#",
      "#", "#", "#", "#", "#", "#", "#", "#", "\n", "#", " ", ".", ".", " ", "r", "s",
      "t", "-", "c", "l", "a", "s", "s", " ", ":", ":", " ", "s", "p", "h", "x", "-",
      "g", "l", "r", "-", "s", "c", "r", "i", "p", "t", "-", "o", "u", "t", "\n", "#",
      " ", "\n", "#", " ", "O", "u", "t", ":", "\n", "#", " ", "\n", "#", " ", ".",
      ".", " ", "c", "o", "d", "e", "-", "b", "l", "o", "c", "k", ":", " ", "n", "o",
      "n", "e", "\n", "#", " ">>

RECURSIVE C4_TextLines(_)
\* One line `#    <line>`, right-stripped, for each text line.
C4_TextLines(ls) ==
    IF Len(ls) = 0 THEN <<>>
    ELSE <<"\n", "#", " ", " ", " ", " ">> \o RStrip(ls[1]) \o C4_TextLines(Tail(ls))

\* The document the claim describes.
C4_Document ==
    <<"r", "\"", "\"", "\"">> \o FormatRst(cells[1].rst) \o <<"\"", "\"", "\"">>
        \o <<"\n", "\n">> \o cells[2].source
        \o C4_OutBlock \o C4_TextLines(cells[2].outputs[1].data["text/plain"])

\* C4 as amended: the returned document is the described text (header, code
\* source, `Out:` block, one commented line per text line) with every newline
\* that is directly followed by `%` turned into newline and `# %`; it is the
\* described text itself when that text has no such newline.
C4_DocumentUpToEscape ==
    C4_Case =>
        /\ IsPercentEscaped(doc, C4_Document)
        /\ ~Contains(C4_Document, <<"\n", "%">>) => doc = C4_Document

C4_Witness ==
    /\ C4_Case
    /\ cells[2].source = <<"x", "=", "1">>
    /\ ~Contains(C4_Document, <<"\n", "%">>)
    /\ doc = C4_Document
    /\ EndsWith(doc, <<"#", " ", "O", "u", "t", ":", "\n", "#", " ", "\n", "#", " ", ".", ".", " ", "c", "o", "d", "e", "-", "b", "l", "o", "c", "k", ":", " ", "n", "o", "n", "e", "\n", "#", " ", "\n", "#", " ", " ", " ", " ", " ", "1", "\n", "#", " ", " ", " ", " ", "%", "b">>)

\* C4 as stated: the document is the described text, the code source
\* literally.
C4_Original ==
    C4_Case => doc = C4_Document

\* The last output read is a display_data carrying only image/png, the first
\* image of a code cell of a notebook that is not executable.
C5_Case ==
    /\ pc \in {"outputs", "failed"}
    /\ ~is_executable
    /\ cells # <<>>
    /\ Last(cells).cell_type = "code"
    /\ Last(cells).outputs # <<>>
    /\ Last(cells).id # <<>>
    /\ Last(Last(cells).outputs)
           = [output_type |-> "display_data", data |-> ("image/png" :> Payload)]
    /\ num_images = 1

\* <gallery-dir>/<asset-folder>/<notebook-name>_<cell-id>_1.png
C5_Path ==
    GalleryDir \o <<"/">> \o asset_folder \o <<"/">> \o notebook_name \o <<"_">>
        \o Last(cells).id \o <<"_", "1", ".", "p", "n", "g">>

\* C5: a display_data output carrying only image/png ends with one regular
\* file holding the decoded payload at the image's path, also when the file
\* did not exist before, and with one figure block referencing that path.
C5_ImageFileWritten ==
    C5_Case =>
        /\ pc = "outputs"
        /\ SaveLoc(C5_Path) \in DOMAIN fs
        /\ fs[SaveLoc(C5_Path)] = File(<<65>>)
        /\ EndsWith(doc, <<"\n", "#", "\n", "#", " ", ".", ".", " ", "f", "i", "g", "u", "r", "e", ":", ":", " ">> \o C5_Path
                             \o <<"\n", "#", " ", " ", " ", " ", ":", "a", "l", "i", "g", "n", ":", " ", "c", "e", "n", "t", "e", "r", "\n", "#", " ", " ", " ", " ", ":", "w", "i", "d", "t", "h", ":", " ", "8", "0", "%">>)

\* The author block for the info file of the run's author.
C6_AuthorBlock ==
    <<"\n", "\n", "#", "#", "#", "#", "#", "#", "#", "#", "#", "#", "#", "#", "#", "#",
      "#", "#", "#", "#", "#", "#", "#", "#", "#", "#", "#", "#", "#", "#", "#", "#",
      "#", "#", "#", "#", "#", "#", "#", "#", "#", "#", "#", "#", "#", "#", "#", "#",
      "#", "#", "#", "#", "#", "#", "#", "#", "#", "#", "#", "#", "#", "#", "#", "#",
      "#", "#", "#", "#", "#", "#", "#", "#", "\n", "#", " ", "A", "b", "o", "u", "t",
      " ", "t", "h", "e", " ", "a", "u", "t", "h", "o", "r", "\n", "#", " ", "-", "-",
      "-", "-", "-", "-", "-", "-", "-", "-", "-", "-", "-", "-", "-", "-", "\n", "#",
      " ", ".", ".", " ", "i", "n", "c", "l", "u", "d", "e", ":", ":", " ">>
        \o InfoFileLoc(author_info, AuthorsDir)

\* C6: the document a successful run writes is the converted cell text
\* followed by one author fragment, its last; the fragment occurs once.
C6_OneAuthorBlockLast ==
    pc = "done" =>
        /\ nb_py = doc \o C6_AuthorBlock
        /\ fs[DocumentLoc] = File(nb_py)
        /\ EndsWith(nb_py, C6_AuthorBlock)
        /\ Count(nb_py, <<"#", " ", "A", "b", "o", "u", "t", " ", "t", "h", "e", " ", "a", "u", "t", "h", "o", "r">>) = 1
        /\ Count(nb_py, C6_AuthorBlock) = 1
        /\ SaveLoc(InfoFileLoc(author_info, AuthorsDir)) \in DOMAIN fs

C6_Witness ==
    /\ pc = "done"
    /\ Len(cells) = 2
    /\ cells[2].cell_type = "code"
    /\ cells[2].source # <<>>
    /\ EndsWith(nb_py, <<"#", " ", ".", ".", " ", "i", "n", "c", "l", "u", "d", "e", ":", ":", " ", "a", "u", "/", "j", "a", "n", "e", "_", "q", ".", "_", "d", "o", "e", ".", "t", "x", "t">>)

\* str.isalnum() on one character.
C7_Alnum(c) ==
    c \in LowerChars \cup UpperChars \cup DigitChars \cup HighChars

\* The lowercased name with every maximal run of characters that are not
\* alphanumeric replaced by one underscore, position by position.
C7_Stem(name) ==
    Concat([p \in 1..Len(name) |->
        IF C7_Alnum(name[p]) THEN <<LowerOf(name[p])>>
        ELSE IF p > 1 /\ ~C7_Alnum(name[p - 1]) THEN <<>>
        ELSE <<"_">>])

\* C7 as stated: without a formatted_name, the stem is the lowercased name
\* with every run of non-alphanumeric characters replaced by one underscore,
\* and it names the copied picture and the info file the fragment includes.
C7_StemIsSanitizedName ==
    (author_sphinx # <<>> /\ "formatted_name" \notin DOMAIN author_info) =>
        LET stem == C7_Stem(author_info.name)
        IN /\ SaveLoc(AuthorsDir \o <<"/">> \o stem \o <<".", "t", "x", "t">>) \in DOMAIN fs
           /\ SaveLoc(AuthorsDir \o <<"/">> \o stem \o Suffixes(author_info.profile_picture))
                  \in DOMAIN fs
           /\ EndsWith(author_sphinx,
                       <<"#", " ", ".", ".", " ", "i", "n", "c", "l", "u", "d", "e", ":", ":", " ">>
                           \o AuthorsDir \o <<"/">> \o stem \o <<".", "t", "x", "t">>)

\* A space, a hyphen, an apostrophe or a character from U+0080 on.
C7_Separator(c) ==
    c \in {" ", "-", "'", "é"}

\* The lowercased name with every maximal run of separators replaced by one
\* underscore and every other character (a full stop too) kept, position by
\* position.
C7_StemOfSeparatorRuns(name) ==
    Concat([p \in 1..Len(name) |->
        IF ~C7_Separator(name[p]) THEN <<LowerOf(name[p])>>
        ELSE IF p > 1 /\ C7_Separator(name[p - 1]) THEN <<>>
        ELSE <<"_">>])

\* C7 as amended: without a formatted_name, the stem is the lowercased name
\* with every maximal run of spaces, hyphens, apostrophes and characters from
\* U+0080 on replaced by one underscore, every other character kept (so
\* `Jane Q. Doe` yields `jane_q._doe`); the same stem names the copied
\* picture `<stem><suffixes>` and the info file `<stem>.txt` that the
\* returned fragment includes.
C7_StemCollapsesSeparatorRuns ==
    (author_sphinx # <<>> /\ "formatted_name" \notin DOMAIN author_info) =>
        LET stem == C7_StemOfSeparatorRuns(author_info.name)
            txt == AuthorsDir \o <<"/">> \o stem \o <<".", "t", "x", "t">>
            pic == AuthorsDir \o <<"/">> \o stem \o Suffixes(author_info.profile_picture)
        IN /\ DOMAIN fs = {SaveLoc(txt), SaveLoc(pic)}
           /\ fs[SaveLoc(pic)] = File(PictureBytes)
           /\ fs[SaveLoc(txt)].kind = "file"
           /\ EndsWith(author_sphinx,
                       <<"#", " ", ".", ".", " ", "i", "n", "c", "l", "u", "d", "e", ":", ":", " ">>
                           \o txt)
           /\ author_info.name = <<"J", "a", "n", "e", " ", "Q", ".", " ", "D", "o", "e">>
                  => stem = <<"j", "a", "n", "e", "_", "q", ".", "_", "d", "o", "e">>

C7_Witness ==
    /\ pc = "convert"
    /\ author_info = [name |-> <<"J", "a", "n", "e", " ", "Q", ".", " ", "D", "o", "e">>,
                      profile_picture |-> <<"j", ".", "p", "n", "g">>]
    /\ SaveLoc(<<"a", "u", "/", "j", "a", "n", "e", "_", "q", ".", "_", "d", "o", "e", ".", "p", "n", "g">>)
           \in DOMAIN fs
    /\ SaveLoc(<<"a", "u", "/", "j", "a", "n", "e", "_", "q", ".", "_", "d", "o", "e", ".", "t", "x", "t">>)
           \in DOMAIN fs
    /\ EndsWith(author_sphinx,
                <<"i", "n", "c", "l", "u", "d", "e", ":", ":", " ", "a", "u", "/", "j", "a", "n", "e", "_", "q", ".", "_", "d", "o", "e", ".", "t", "x", "t">>)

\* p starts an occurrence of `.. container:: ` that a word character follows.
C8_Site(t, p) ==
    /\ IsAt(t, p, <<".", ".", " ", "c", "o", "n", "t", "a", "i", "n", "e", "r", ":", ":", " ">>)
    /\ p + 15 <= Len(t)
    /\ WordChar(t[p + 15])

\* p lies in the TAG of an occurrence: only word characters lie between the
\* occurrence's `.. container:: ` and p.
C8_InTag(t, p) ==
    \E s \in 1..p : C8_Site(t, s) /\ s + 15 <= p /\ \A k \in (s + 15)..p : WordChar(t[k])

\* t with each `.. container:: TAG` turned into `.. TAG::`, TAG being all the
\* word characters that follow, and everything else kept: position by position.
C8_Rewritten(t) ==
    Concat([p \in 1..Len(t) |->
        IF C8_Site(t, p) THEN <<".", ".", " ">>
        ELSE IF \E s \in 1..p : C8_Site(t, s) /\ p < s + 15 THEN <<>>
        ELSE IF C8_InTag(t, p) /\ (p = Len(t) \/ ~WordChar(t[p + 1])) THEN <<t[p]>> \o <<":", ":">>
        ELSE <<t[p]>>])

\* C8 as amended: update_sphinx_tags turns each `.. container:: TAG`, TAG
\* being all the word characters that follow, into `.. TAG::` and keeps all
\* other text; so `.. container:: note` with no word character behind it
\* becomes `.. note::`.
C8_TagsRewritten ==
    tOp = "update_sphinx_tags" =>
        /\ tOut = C8_Rewritten(tIn)
        /\ (\E p \in 1..Len(tIn) :
                /\ IsAt(tIn, p, <<".", ".", " ", "c", "o", "n", "t", "a", "i", "n", "e", "r", ":", ":", " ", "n", "o", "t", "e">>)
                /\ (p + 19 > Len(tIn) \/ ~WordChar(tIn[p + 19])))
               => Contains(tOut, <<".", ".", " ", "n", "o", "t", "e", ":", ":">>)

C8_Witness ==
    /\ tOp = "update_sphinx_tags"
    /\ tIn = <<".", ".", " ", "c", "o", "n", "t", "a", "i", "n", "e", "r", ":", ":", " ", "n", "o", "t", "e", "\n">>
    /\ tOut = <<".", ".", " ", "n", "o", "t", "e", ":", ":", "\n">>

\* C8 as stated: a text containing `.. container:: note` yields one
\* containing `.. note::` and no `container::` anywhere.
C8_Original ==
    (tOp = "update_sphinx_tags" /\ Contains(tIn, <<".", ".", " ", "c", "o", "n", "t", "a", "i", "n", "e", "r", ":", ":", " ", "n", "o", "t", "e">>)) =>
        /\ Contains(tOut, <<".", ".", " ", "n", "o", "t", "e", ":", ":">>)
        /\ ~Contains(tOut, <<"c", "o", "n", "t", "a", "i", "n", "e", "r", ":", ":">>)

\* p is the single space between a word character and `:property=`.
C9_Site(t, p) ==
    /\ t[p] = " "
    /\ p > 1
    /\ WordChar(t[p - 1])
    /\ IsAt(t, p + 1, <<":", "p", "r", "o", "p", "e", "r", "t", "y", "=">>)

C10_NoPercentLine ==
    /\ [][(pc = "cells" /\ pc' = "returned") =>
              /\ IsPercentEscaped(doc', doc)
              /\ ~Contains(doc', <<"\n", "%">>)]_vars
    /\ [](pc = "returned" => ~Contains(doc, <<"\n", "%">>))
    /\ [][pc = "returned" => doc' = doc]_vars

C10_Witness ==
    /\ pc = "returned"
    /\ StartsWith(doc, <<"r", "\"", "\"", "\"", "T", "\n", "#", " ", "%", "b", "\"", "\"", "\"">>)
    /\ Contains(doc, <<"\n", "\n", "#", " ", "%", "t", "\n", "#", " ", "%", "u">>)
    /\ ~Contains(doc, <<"\n", "%">>)

\* An output record without the representation of its declared type.
C11_Malformed(o) ==
    \/ o.output_type = "execute_result" /\ ~Has(o, "text/plain")
    \/ o.output_type = "display_data" /\ ~Has(o, "text/plain") /\ ~Has(o, "image/png")
    \/ o.output_type = "stream" /\ "text" \notin DOMAIN o

\* C11: an output record of a non-executable code cell that lacks the
\* representation expected for its declared type makes the conversion fail:
\* once such a record has been read the run has failed, it is never passed
\* over.
C11_MalformedOutputFails ==
    (\E i \in 1..Len(cells) : \E k \in 1..Len(cells[i].outputs) :
         C11_Malformed(cells[i].outputs[k]))
        => pc = "failed"

\* C12: author metadata without `name` or without `profile_picture` aborts
\* the run in set_author_info with a KeyError: the conversion is never
\* entered, no cell is processed, and neither the picture copy, the info
\* file, an image nor the document is written.
C12_MissingAuthorFieldAborts ==
    ("name" \notin DOMAIN author_info \/ "profile_picture" \notin DOMAIN author_info) =>
        /\ pc \in {"author", "failed"}
        /\ pc = "failed" => err = "KeyError"
        /\ author_sphinx = <<>>
        /\ cells = <<>>
        /\ doc = <<>>
        /\ nb_py = <<>>
        /\ fs = EmptyFs

C12_Witness ==
    /\ pc = "failed"
    /\ err = "KeyError"
    /\ "name" \in DOMAIN author_info
    /\ "profile_picture" \notin DOMAIN author_info
    /\ fs = EmptyFs
    /\ cells = <<>>

\* C13 (as stated): in a non-executable notebook, once an execute_result
\* output carrying text/plain has been rendered, at whatever index in its
\* cell, the document ends with the `Out:` header block followed by every
\* line of the text, in order, each behind `#    `.
C13_Case ==
    /\ pc = "outputs"
    /\ Cur.outputs # <<>>
    /\ Last(Cur.outputs).output_type = "execute_result"
    /\ Has(Last(Cur.outputs), "text/plain")

C13_TextFollowsHeader ==
    C13_Case =>
        EndsWith(doc, OutputHeader \o C4_TextLines(Last(Cur.outputs).data["text/plain"]))

\* The step renders a display_data output that carries text/plain and no
\* image/png, in a cell that has an id.
C14_DisplayTextStep ==
    /\ pc = "outputs" /\ pc' = "outputs"
    /\ Len(cells') = Len(cells)
    /\ Len(Last(cells').outputs) = Len(Cur.outputs) + 1
    /\ Last(Last(cells').outputs).output_type = "display_data"
    /\ Has(Last(Last(cells').outputs), "text/plain")
    /\ ~Has(Last(Last(cells').outputs), "image/png")

\* C14 (as stated): a display_data output with text/plain and no image/png
\* at index j appends exactly what an execute_result output with the same
\* text/plain appends at index j (lines 161-163).
C14_DisplayTextLikeExecuteResult ==
    [][C14_DisplayTextStep =>
           doc' = doc \o generate_code_output_block(
                              Last(Last(cells').outputs).data["text/plain"], NextJ # 0)]_vars

\* The first output of a code cell that has an id is a display_data output
\* carrying both text/plain and a well-formed image/png.
C15_Case ==
    /\ pc \in {"outputs", "failed"}
    /\ ~is_executable
    /\ cells # <<>>
    /\ Last(cells).cell_type = "code"
    /\ Last(cells).id # <<>>
    /\ Len(Last(cells).outputs) = 1
    /\ Last(cells).outputs[1]
           = [output_type |-> "display_data",
              data |-> ("text/plain" :> Lines) @@ ("image/png" :> Payload)]

\* The text lines of the output, commented, as either branch strips them.
C15_TextRendered ==
    \/ Contains(doc, C4_TextLines(Lines))
    \/ Contains(doc, <<"\n", "#", " ", " ", " ", " ", "1", "\n", "#", " ", " ", " ", " ", "%", "b">>)

\* C15 (as stated): a display_data output with both text/plain and image/png
\* gets both renderings: its commented text lines are in the document, the
\* document ends with its figure block, and its image file is written.
C15_BothRenderingsEmitted ==
    C15_Case =>
        /\ pc = "outputs"
        /\ C15_TextRendered
        /\ EndsWith(doc, L_NlHashNl \o RoleText(C5_Path))
        /\ SaveLoc(C5_Path) \in DOMAIN fs
        /\ fs[SaveLoc(C5_Path)] = File(<<65>>)

\* The step renders a stream output whose text is not empty.
C16_StreamStep ==
    /\ pc = "outputs"
    /\ Len(cells') = Len(cells)
    /\ Len(Last(cells').outputs) = Len(Cur.outputs) + 1
    /\ Last(Last(cells').outputs).output_type = "stream"
    /\ "text" \in DOMAIN Last(Last(cells').outputs)
    /\ Last(Last(cells').outputs).text # <<>>

\* C16: a stream output with non-empty text, at any index of its cell,
\* appends a complete output block: two newlines, 70 `#`, the whole `Out:`
\* header, and every text line behind `#    `; the run goes on.
C16_StreamBlockComplete ==
    [][C16_StreamStep =>
           /\ doc' = doc \o C4_OutBlock \o C4_TextLines(Last(Last(cells').outputs).text)
           /\ pc' = "outputs"
           /\ fs' = fs]_vars

\* A stream output rendered in full at index 2, after an execute_result and
\* a display_data output.
C16_Witness ==
    /\ pc = "outputs"
    /\ Len(Cur.outputs) = 3
    /\ Cur.outputs[1].output_type = "execute_result"
    /\ Cur.outputs[2].output_type = "display_data"
    /\ Cur.outputs[3] = [output_type |-> "stream", text |-> Lines]
    /\ EndsWith(doc, C4_OutBlock \o <<"\n", "#", " ", " ", " ", " ", " ", "1", "\n", "#", " ", " ", " ", " ", "%", "b">>)

\* <gallery-dir>/<asset-folder>/<notebook-name>_<cell-id>_<k>.png, k < 10.
C17_Path(id, k) ==
    GalleryDir \o <<"/">> \o asset_folder \o <<"/">> \o notebook_name \o <<"_">>
        \o id \o <<"_", Dec(k)[1], ".", "p", "n", "g">>

\* The number of image outputs among the first m outputs of cell i.
C17_Ordinal(i, m) ==
    Cardinality({n \in 1..m : Has(cells[i].outputs[n], "image/png")})

\* C17 (as stated): the k-th image output met in a code cell is written to,
\* and referenced in the document as, <notebook-name>_<cell-id>_<k>.png,
\* k counting from 1 in every cell.
C17_ImagesNumberedPerCell ==
    \A i \in 1..Len(cells) : \A m \in 1..Len(cells[i].outputs) :
        (/\ cells[i].id # <<>>
         /\ Has(cells[i].outputs[m], "image/png")
         /\ \A n \in 1..m : Has(cells[i].outputs[n], "image/png")
                                 => cells[i].outputs[n].data["image/png"] = Payload)
        => LET path == C17_Path(cells[i].id, C17_Ordinal(i, m))
           IN /\ SaveLoc(path) \in DOMAIN fs
              /\ fs[SaveLoc(path)] = File(<<65>>)
              /\ Contains(doc, <<"#", " ", ".", ".", " ", "f", "i", "g", "u", "r", "e", ":", ":", " ">> \o path \o <<"\n">>)

\* The loop takes a markdown or code cell whose source is empty.
C18_EmptyCellStep ==
    /\ pc = "cells"
    /\ Len(cells') = Len(cells) + 1
    /\ Last(cells').cell_type \in {"markdown", "code"}
    /\ Last(cells').source = <<>>

\* C18: a markdown or code cell with empty source, at any position, leaves
\* the document and the disk as they were and the loop goes to the next
\* cell: no header for an empty cell 0, and the outputs of an empty code
\* cell are never looked at, executable notebook or not.
C18_EmptyCellChangesNothing ==
    [][C18_EmptyCellStep =>
           /\ doc' = doc
           /\ fs' = fs
           /\ num_images' = num_images
           /\ pc' = "cells" /\ err' = err]_vars

\* A non-executable notebook whose cell 0 is an empty markdown cell and
\* whose cell 1 is an empty code cell: the document is still empty.
C18_Witness ==
    /\ pc = "cells"
    /\ ~is_executable
    /\ Len(cells) = 2
    /\ cells[1].cell_type = "markdown" /\ cells[1].source = <<>>
    /\ cells[2].cell_type = "code" /\ cells[2].source = <<>>
    /\ doc = <<>>
    /\ fs = EmptyFs

\* t with `# ` put before every `%` that follows a newline.
C19_Escaped(t) ==
    Concat([k \in 1..Len(t) |->
               IF k > 1 /\ t[k] = "%" /\ t[k - 1] = "\n"
               THEN <<"#", " ", "%">> ELSE <<t[k]>>])

\* C19 (as stated): the returned document holds, for every code cell with
\* non-empty source, two newlines followed by the source character for
\* character.
C19_Original ==
    pc = "returned" =>
        \A i \in 1..Len(cells) :
            (cells[i].cell_type = "code" /\ cells[i].source # <<>>)
                => Contains(doc, <<"\n", "\n">> \o cells[i].source)

\* C19 (amended): the returned document holds, for every code cell with
\* non-empty source, two newlines followed by the source in which every
\* `%` that begins a line has `# ` put before it, and nothing else changed:
\* a source with no line beginning with `%` appears verbatim.
C19_SourceVerbatimUpToEscape ==
    pc = "returned" =>
        \A i \in 1..Len(cells) :
            (cells[i].cell_type = "code" /\ cells[i].source # <<>>)
                => Contains(doc, C19_Escaped(<<"\n", "\n">> \o cells[i].source))

\* A returned document with a code cell `x=1`, kept verbatim, and a code
\* cell whose two lines begin with `%`, both commented.
C19_Witness ==
    /\ pc = "returned"
    /\ Len(cells) = 3
    /\ cells[2].cell_type = "code" /\ cells[2].source = <<"x", "=", "1">>
    /\ cells[3].cell_type = "code" /\ cells[3].source = <<"%", "t", "\n", "%", "u">>
    /\ Contains(doc, <<"\n", "\n", "x", "=", "1">>)
    /\ Contains(doc, <<"\n", "\n", "#", " ", "%", "t", "\n", "#", " ", "%", "u">>)

\* What the rule named op returns for t.
C20_Rule(op, t) ==
    CASE op = "update_sphinx_tags" -> update_sphinx_tags(t)
      [] op = "add_property_newline" -> add_property_newline(t)
      [] op = "fix_image_alt_tag_as_text" -> fix_image_alt_tag_as_text(t)
      [] op = "FormatRst" -> FormatRst(t)

\* C20 (as stated): each of the three rules, and the pipeline of the three,
\* applied to its own result returns that result unchanged.
C20_Original ==
    tOp # "none" => C20_Rule(tOp, tOut) = tOut

\* t holds `.. container:: container ` followed by a word character: the
\* tag rewritten to `.. container::` opens a new tag with what follows.
C20_TagsReopen(t) ==
    \E p \in 1..Len(t) :
        /\ IsAt(t, p, <<".", ".", " ", "c", "o", "n", "t", "a", "i", "n", "e", "r", ":", ":", " ", "c", "o", "n", "t", "a", "i", "n", "e", "r", " ">>)
        /\ p + 25 <= Len(t)
        /\ WordChar(t[p + 25])

\* t holds an alt line and its paragraph followed by another indented
\* paragraph: what is left of the match matches again.
C20_AltReopens(t) ==
    \E p \in Hits(AltMatchAt, t) :
        LET e == LineEnd(t, p + 9)
            f == LineEnd(t, e + 6)
        IN /\ IsAt(t, f + 1, <<"\n", "\n", " ", " ", " ">>)
           /\ f + 6 <= Len(t)
           /\ t[f + 6] # "\n"

\* C20 (amended): every rule returns a text for every text;
\* add_property_newline applied to its own result changes nothing;
\* update_sphinx_tags does so exactly when its input holds no
\* `.. container:: container ` followed by a word character, and
\* fix_image_alt_tag_as_text exactly when no match in its input is followed
\* by a blank line and a further line indented by three spaces; the
\* pipeline does so exactly when its result holds no match of the tag
\* pattern and none of the alt pattern.
C20_IdempotentExactlyWhere ==
    /\ tOp # "none" => DOMAIN tOut = 1..Len(tOut)
    /\ tOp = "add_property_newline" => add_property_newline(tOut) = tOut
    /\ tOp = "update_sphinx_tags"
           => (update_sphinx_tags(tOut) = tOut <=> ~C20_TagsReopen(tIn))
    /\ tOp = "fix_image_alt_tag_as_text"
           => (fix_image_alt_tag_as_text(tOut) = tOut <=> ~C20_AltReopens(tIn))
    /\ tOp = "FormatRst"
           => (FormatRst(tOut) = tOut
                   <=> Hits(ContainerMatchAt, tOut) = {} /\ Hits(AltMatchAt, tOut) = {})

\* An alt line followed by two indented paragraphs: the rule drops the
\* first, and applied again drops the second.
C20_Witness ==
    /\ tOp = "fix_image_alt_tag_as_text"
    /\ tIn = <<" ", " ", " ", ":", "a", "l", "t", ":", " ", "a", "\n", "\n", " ", " ", " ", "b", "\n", "\n", " ", " ", " ", "b">>
    /\ tOut = <<" ", " ", " ", ":", "a", "l", "t", ":", " ", "a", "\n", "\n", " ", " ", " ", "b">>
    /\ fix_image_alt_tag_as_text(tOut) = <<" ", " ", " ", ":", "a", "l", "t", ":", " ", "a">>

\* The alt pattern matches at p and the indented line it takes is the alt
\* caption over again.
C21_DuplicateAt(t, p) ==
    /\ AltMatchAt(t, p)
    /\ LET e == LineEnd(t, p + 9)
           f == LineEnd(t, e + 6)
       IN SubSeq(t, e + 6, f) = SubSeq(t, p + 9, e)

\* C21 (as stated): fix_image_alt_tag_as_text drops the indented line behind
\* an `   :alt: X` line and a blank line only where that line is X again,
\* keeps the alt line, and returns every other text as it is: an indented
\* line that differs from X is never deleted.
C21_OnlyDuplicateCaptionRemoved ==
    tOp = "fix_image_alt_tag_as_text" =>
        tOut = SubAltFrom(tIn, 1, Hits(C21_DuplicateAt, tIn))

\* s is a prefix of t.
C22_Prefix(s, t) ==
    Len(s) <= Len(t) /\ SubSeq(t, 1, Len(s)) = s

\* The cells read so far stay as read: a step reads the next cell, or the
\* next output of the current cell, and touches no earlier one.
C22_InOrder ==
    /\ Len(cells') \in {Len(cells), Len(cells) + 1}
    /\ \A i \in 1..Len(cells) :
           /\ cells'[i].cell_type = cells[i].cell_type
           /\ cells'[i].source = cells[i].source
           /\ cells'[i].rst = cells[i].rst
           /\ C22_Prefix(cells[i].outputs, cells'[i].outputs)
           /\ i < Len(cells) => cells'[i] = cells[i]

\* C22: in every step of the pass before the final escape pass the
\* document grows by appending only and the cells are taken once each in
\* their order; so the header block of a non-empty cell 0 stays at the head
\* of the document, unaltered.
C22_DocumentGrowsByAppending ==
    [][pc' # "returned" =>
           /\ C22_Prefix(doc, doc')
           /\ C22_InOrder
           /\ (Len(cells) >= 1 /\ cells[1].source # <<>>)
                  => StartsWith(doc', <<"r", "\"", "\"", "\"">> \o FormatRst(cells[1].rst)
                                          \o <<"\"", "\"", "\"">>)]_vars

\* Three cells read: a header cell, a code cell and a further markdown
\* cell, whose commented text stands behind the header and the code.
C22_Witness ==
    /\ pc = "cells"
    /\ Len(cells) = 3
    /\ cells[1].cell_type = "markdown" /\ cells[1].source # <<>>
    /\ cells[2].cell_type = "code" /\ cells[2].source = <<"x", "=", "1">>
    /\ cells[3].cell_type = "markdown" /\ cells[3].source # <<>>
    /\ StartsWith(doc, <<"r", "\"", "\"", "\"">> \o FormatRst(cells[1].rst)
                           \o <<"\"", "\"", "\"", "\n", "\n", "x", "=", "1", "\n", "\n", "#">>)
    /\ Len(doc) > Len(FormatRst(cells[1].rst)) + 100

\* The picture copy and the info file of the run's author are on the disk
\* f, as set_author_info wrote them.
C23_AuthorFilesIn(f) ==
    /\ "name" \in DOMAIN author_info
    /\ "profile_picture" \in DOMAIN author_info
    /\ SaveLoc(NewProfilePictureLoc(author_info, AuthorsDir)) \in DOMAIN f
    /\ SaveLoc(InfoFileLoc(author_info, AuthorsDir)) \in DOMAIN f
    /\ f[SaveLoc(NewProfilePictureLoc(author_info, AuthorsDir))] = File(PictureBytes)
    /\ f[SaveLoc(InfoFileLoc(author_info, AuthorsDir))]
           = File(AuthorTxt(author_info, AuthorsDir))

\* C23: as long as the author step has not run no cell has been looked at;
\* in every later step of the run, the steps that fail included (failed
\* validation, an output that cannot be read, an image that cannot be
\* written), the author's picture copy and info file are on disk before
\* and after the step, and every file the run has written stays as written.
C23_AuthorFilesBeforeConversion ==
    [][/\ pc = "author" => cells = <<>> /\ doc = <<>> /\ fs = EmptyFs
       /\ pc # "author" =>
              /\ C23_AuthorFilesIn(fs)
              /\ C23_AuthorFilesIn(fs')
              /\ \A p \in DOMAIN fs :
                     (fs[p].kind = "file" /\ fs[p] # File(OldBytes))
                         => p \in DOMAIN fs' /\ fs'[p] = fs[p]]_vars

\* A run that failed on the second image of a code cell: the author files
\* and the first image are on disk, and so is the directory made at the
\* second image's path.
C23_Witness ==
    /\ pc = "failed"
    /\ err = "IsADirectoryError"
    /\ C23_AuthorFilesIn(fs)
    /\ Len(cells) = 2
    /\ Len(cells[2].outputs) = 2
    /\ SaveLoc(C17_Path(cells[2].id, 1)) \in DOMAIN fs
    /\ fs[SaveLoc(C17_Path(cells[2].id, 1))] = File(<<65>>)
    /\ SaveLoc(C17_Path(cells[2].id, 2)) \in DOMAIN fs
    /\ fs[SaveLoc(C17_Path(cells[2].id, 2))] = Dir
====
